---- MODULE Spec2Model ----
(***************************************************************************)
(* A model of the ADXL343 accelerometer driver (adxl343_rs).               *)
(*                                                                         *)
(* The driver owns an I2C bus handle and a Settings value.  Its operations *)
(* write configuration registers, toggle measurement mode, read raw        *)
(* samples and convert raw byte pairs into signed readings and g values.   *)
(*                                                                         *)
(* Four specifications are given:                                          *)
(*   Spec      the driver life cycle against a device on a fallible bus;   *)
(*   SpecId    the identity check against every byte a device may answer;  *)
(*   SpecSet   the Settings model's derived values, for every Settings;    *)
(*   SpecConv  the conversion pipeline applied to every reading the device *)
(*             can encode at the active resolution, in both alignments.    *)
(***************************************************************************)
EXTENDS Integers, Sequences, FiniteSets, TLC

VARIABLES
    settings,    \* ADXL343Interface.settings (after destroy: the returned copy)
    live,        \* TRUE while the driver object exists (FALSE once destroyed)
    regs,        \* the device's BW_RATE, DATA_FORMAT and POWER_CTL registers
    configured,  \* the registers init() has written on this driver instance
    everFailed,  \* TRUE once any bus transaction has returned an error
    last,        \* the most recent operation: arguments, transactions, result
    prev,        \* summary of the operation before it
    reading,     \* SpecConv: the physical reading the device holds, in LSBs
    dec          \* SpecConv: the decoded reading per alignment, once decoded

vars == <<settings, live, regs, configured, everFailed, last, prev, reading, dec>>

---------------------------------------------------------------------------
(* Register map: src/src/registers/mod.rs                                  *)

DEVID_ADDR == 0
BW_RATE_ADDR == 44
POWER_CTL_ADDR == 45
DATA_FORMAT_ADDR == 49
DATAX0_ADDR == 50
FIFO_CTL_ADDR == 56
REGISTER_SIZE == 8
DEVICE_ID == 229

\* Imported by the driver from the register map, which does not define them
\* in this revision: the 7-bit bus address of the chip and the expected
\* content of the device-ID register.
ADXL343_ADDR == 83
DEVID_REG_VALUE == DEVICE_ID

Byte == 0..255

RECURSIVE Pow2(_)
Pow2(n) == IF n = 0 THEN 1 ELSE 2 * Pow2(n - 1)

---------------------------------------------------------------------------
(* Bit-field enums: src/src/registers/accel_configs.rs                     *)

OutputDataRate ==
    { "Hz3200", "Hz1600", "Hz800", "Hz400", "Hz200", "Hz100", "Hz50", "Hz25",
      "Hz12_5", "Hz6_25", "Hz3_13", "Hz1_56", "Hz0_78", "Hz0_39", "Hz0_20",
      "Hz0_10" }

OutputDataRateBits(odr) ==
    CASE odr = "Hz3200" -> 15
      [] odr = "Hz1600" -> 14
      [] odr = "Hz800"  -> 13
      [] odr = "Hz400"  -> 12
      [] odr = "Hz200"  -> 11
      [] odr = "Hz100"  -> 10
      [] odr = "Hz50"   -> 9
      [] odr = "Hz25"   -> 8
      [] odr = "Hz12_5" -> 7
      [] odr = "Hz6_25" -> 6
      [] odr = "Hz3_13" -> 5
      [] odr = "Hz1_56" -> 4
      [] odr = "Hz0_78" -> 3
      [] odr = "Hz0_39" -> 2
      [] odr = "Hz0_20" -> 1
      [] odr = "Hz0_10" -> 0

AccelRange == { "_2g", "_4g", "_8g", "_16g" }

AccelRangeBits(range) ==
    CASE range = "_2g"  -> 0
      [] range = "_4g"  -> 1
      [] range = "_8g"  -> 2
      [] range = "_16g" -> 3

Alignment == { "right", "left" }

AlignmentBits(justification) ==
    CASE justification = "right" -> 0
      [] justification = "left"  -> 1

FullRes == { "_10bit_res", "full_res" }

FullResBits(resolution) ==
    CASE resolution = "_10bit_res" -> 0
      [] resolution = "full_res"   -> 1

\* bool as u8
BoolBits(b) == IF b THEN 1 ELSE 0

\* Variant: the low-power flag is placed one bit too low.
BW_RATE_overflow(odr, low_power) ==
    ((OutputDataRateBits(odr) % 16) + (low_power % 2) * 8) % 256

\* #[bitfield] packs the fields from bit 0 upwards in declaration order;
\* a setter keeps only the field's own width.
BW_RATE(odr, low_power) ==
    (OutputDataRateBits(odr) % 16) + (low_power % 2) * 16

\* Variant: justisfy and full_res are declared in the other order.
DATA_FORMAT_swapped(range, justisfy, full_res) ==
    (AccelRangeBits(range) % 4) + (FullResBits(full_res) % 2) * 4
        + (AlignmentBits(justisfy) % 2) * 8

DATA_FORMAT(range, justisfy, full_res) ==
    (AccelRangeBits(range) % 4) + (AlignmentBits(justisfy) % 2) * 4
        + (FullResBits(full_res) % 2) * 8

\* Variant: measure is placed where sleep is.
POWER_CTL_sleep(measure) == (measure % 2) * 4

\* wakeup (2 bits) and sleep (1 bit) precede measure; all but measure are 0.
POWER_CTL(measure) == (measure % 2) * 8

\* The address() accessor of each register layout.
RegisterLayouts ==
    { "BW_RATE::address", "POWER_CTL::address", "DATA_FORMAT::address",
      "FIFO_CTL::address", "DEVID::address" }

address(layout) ==
    CASE layout = "BW_RATE::address"     -> BW_RATE_ADDR
      [] layout = "POWER_CTL::address"   -> BW_RATE_ADDR
      [] layout = "DATA_FORMAT::address" -> DATA_FORMAT_ADDR
      [] layout = "FIFO_CTL::address"    -> FIFO_CTL_ADDR
      [] layout = "DEVID::address"       -> DEVID_ADDR

---------------------------------------------------------------------------
(* Settings model: src/src/utils/settings.rs                               *)

ADXL343Settings ==
    [ odr : OutputDataRate, range : AccelRange, justification : Alignment,
      resolution : FullRes, low_power_mode : BOOLEAN,
      measurement_mode : BOOLEAN ]

\* Variant: left is the default alignment.
Default_left ==
    [ odr |-> "Hz100", range |-> "_2g", justification |-> "left",
      resolution |-> "_10bit_res", low_power_mode |-> FALSE,
      measurement_mode |-> FALSE ]

\* #[derive(Default)]: every field at its own default
Default ==
    [ odr |-> "Hz100", range |-> "_2g", justification |-> "right",
      resolution |-> "_10bit_res", low_power_mode |-> FALSE,
      measurement_mode |-> FALSE ]

DATA_FORMAT_reg_value(s) == DATA_FORMAT(s.range, s.justification, s.resolution)

BW_RATE_reg_value(s) == BW_RATE(s.odr, BoolBits(s.low_power_mode))

\* Variant: the range is ignored.
resolution_to_bits_fixed(s) == 10

resolution_to_bits(s) ==
    CASE s.resolution = "_10bit_res" -> 10
      [] s.resolution = "full_res" /\ s.range = "_2g"  -> 10
      [] s.resolution = "full_res" /\ s.range = "_4g"  -> 11
      [] s.resolution = "full_res" /\ s.range = "_8g"  -> 12
      [] s.resolution = "full_res" /\ s.range = "_16g" -> 13

\* Variant: the scale follows the range in full resolution too.
g_per_lsb_by_range(s) ==
    CASE s.range = "_2g"  -> [num |-> 1, den |-> 256]
      [] s.range = "_4g"  -> [num |-> 1, den |-> 128]
      [] s.range = "_8g"  -> [num |-> 1, den |-> 64]
      [] s.range = "_16g" -> [num |-> 1, den |-> 32]

\* An f32 that is an exact power-of-two fraction, kept as num/den.
g_per_lsb(s) ==
    CASE s.resolution = "full_res" -> [num |-> 1, den |-> 256]
      [] s.resolution = "_10bit_res" /\ s.range = "_2g"  -> [num |-> 1, den |-> 256]
      [] s.resolution = "_10bit_res" /\ s.range = "_4g"  -> [num |-> 1, den |-> 128]
      [] s.resolution = "_10bit_res" /\ s.range = "_8g"  -> [num |-> 1, den |-> 64]
      [] s.resolution = "_10bit_res" /\ s.range = "_16g" -> [num |-> 1, den |-> 32]

lsb_per_g(s) ==
    CASE s.resolution = "full_res" -> 256
      [] s.resolution = "_10bit_res" /\ s.range = "_2g"  -> 256
      [] s.resolution = "_10bit_res" /\ s.range = "_4g"  -> 128
      [] s.resolution = "_10bit_res" /\ s.range = "_8g"  -> 64
      [] s.resolution = "_10bit_res" /\ s.range = "_16g" -> 32

set_justification(s, justification) ==
    [s EXCEPT !.justification = justification]

get_justification(s) == s.justification

\* Variant: the flag is never seen as set.
in_measurement_mode_stuck(s) == FALSE

in_measurement_mode(s) == s.measurement_mode

\* Variant: the toggle is lost.
toggle_measurement_mode_lost(s) == s

\* measurement_mode ^= true
toggle_measurement_mode(s) ==
    [s EXCEPT !.measurement_mode = (s.measurement_mode /= TRUE)]

---------------------------------------------------------------------------
(* Conversion pipeline: src/src/adxl343_interface.rs                       *)

\* u16 << n (bits shifted past bit 15 are lost)
Shl16(w, n) == (w * Pow2(n)) % 65536

\* Variant: the word is not reinterpreted as signed.
AsI16_unsigned(w) == w

\* u16 as i16
AsI16(w) == IF w >= 32768 THEN w - 65536 ELSE w

\* Variant: one bit too many is shifted out.
Sar16_extra(x, n) ==
    IF x >= 0 THEN x \div Pow2(n + 1)
    ELSE -(((-x) + Pow2(n + 1) - 1) \div Pow2(n + 1))

\* i16 >> n: arithmetic shift, i.e. floor division by 2^n
Sar16(x, n) ==
    IF x >= 0 THEN x \div Pow2(n) ELSE -(((-x) + Pow2(n) - 1) \div Pow2(n))

\* accel_data = <<low byte, high byte>>.  The high byte shifted left by 8
\* has its low 8 bits clear, so the bitwise OR with the low byte is their sum.
axis_value_raw(s, accel_data) ==
    LET word  == Shl16(accel_data[2], REGISTER_SIZE) + accel_data[1]
        shift == 16 - resolution_to_bits(s)
        axis  == IF get_justification(s) = "right" THEN Shl16(word, 6) ELSE word
    IN  Sar16(AsI16(axis), shift)

\* (accel_data as f32) * g_per_lsb: exact, since |accel_data| < 2^24 and the
\* factor is a power of two
axis_value(s, accel_data) ==
    [num |-> accel_data * g_per_lsb(s).num, den |-> g_per_lsb(s).den]

---------------------------------------------------------------------------
(* The bus and the device behind it                                        *)

\* One I2c transaction as the driver issues it.  data: the value written
\* after the register address, or the bytes read back (none on an error).
BusWrite(reg_address, value, ok) ==
    [ kind |-> "write", dev |-> ADXL343_ADDR, reg |-> reg_address,
      data |-> <<value>>, ok |-> ok ]

BusWriteRead(reg_address, bytes, ok) ==
    [ kind |-> "write_read", dev |-> ADXL343_ADDR, reg |-> reg_address,
      data |-> IF ok THEN bytes ELSE <<>>, ok |-> ok ]

\* A write that the bus reports as failed does not reach the device.
DeviceWrite(r, reg_address, value, ok) ==
    IF ok /\ reg_address \in DOMAIN r THEN [r EXCEPT ![reg_address] = value]
    ELSE r

\* Register contents after power-on reset.
DeviceReset ==
    (BW_RATE_ADDR :> 10) @@ (DATA_FORMAT_ADDR :> 0) @@ (POWER_CTL_ADDR :> 0)

\* Variant: a bus error is swallowed.
From_swallowed(ok) == "Ok"

\* impl From<E> for ADXL343Error<E>, applied by `?` to a bus result
From(ok) == IF ok THEN "Ok" ELSE "Interface"

NumWrites(tx) == Cardinality({ i \in DOMAIN tx : tx[i].kind = "write" })

AnyFailed(tx) == \E i \in DOMAIN tx : ~tx[i].ok

---------------------------------------------------------------------------
(* Inputs the operations are exercised with                                *)

UnitTestSettings ==
    [Default EXCEPT !.range = "_16g", !.justification = "left",
                    !.resolution = "full_res"]

LowPowerSettings ==
    [Default EXCEPT !.odr = "Hz12_5", !.low_power_mode = TRUE,
                    !.range = "_8g", !.resolution = "full_res"]

QuiescedInputs == { Default, UnitTestSettings, LowPowerSettings }

SettingsInputs ==
    QuiescedInputs
        \cup { [s EXCEPT !.measurement_mode = TRUE] : s \in QuiescedInputs }

\* Bytes a device may answer for its identity register: the ADXL343's, its
\* neighbours, and the extremes.  SpecId tries every byte.
DevIdInputs == { 0, DEVICE_ID - 1, DEVICE_ID, DEVICE_ID + 1, 255 }

\* Raw samples <<x_low, x_high, y_low, y_high, z_low, z_high>>.
SampleInputs ==
    { <<0, 72, 0, 184, 255, 255>>,
      <<255, 1, 0, 254, 64, 0>> }

RegAddrInputs == { DEVID_ADDR, BW_RATE_ADDR, POWER_CTL_ADDR, DATA_FORMAT_ADDR }

NoDec == [j \in Alignment |-> <<>>]

---------------------------------------------------------------------------
(* Driver operations: src/src/adxl343_interface.rs                         *)

ToggleOps == { "begin_measurements", "turn_off_measurements" }

\* History kept for the properties: the call just made and, when the call
\* before it was one of the two measurement toggles, how many writes that
\* one issued and the flag it started from.
Record(op, sarg, addr, tx, ret, val, fval) ==
    /\ last' = [ op |-> op, pre |-> settings, sarg |-> sarg, addr |-> addr,
                 tx |-> tx, ret |-> ret, val |-> val, fval |-> fval ]
    /\ prev' = IF last.op \in ToggleOps
               THEN [ op |-> last.op, nw |-> NumWrites(last.tx),
                      meas |-> last.pre.measurement_mode ]
               ELSE [ op |-> "other", nw |-> 0, meas |-> FALSE ]
    /\ everFailed' = (everFailed \/ AnyFailed(tx))

Wrote(tx) == { tx[i].reg : i \in { k \in DOMAIN tx : tx[k].kind = "write" /\ tx[k].ok } }

Init ==
    /\ settings = Default
    /\ live = TRUE
    /\ regs = DeviceReset
    /\ configured = {}
    /\ everFailed = FALSE
    /\ last = [ op |-> "new", pre |-> Default, sarg |-> Default, addr |-> 0,
                tx |-> <<>>, ret |-> "Ok", val |-> <<>>, fval |-> <<>> ]
    /\ prev = [ op |-> "other", nw |-> 0, meas |-> FALSE ]
    /\ reading = 0
    /\ dec = NoDec

\* new(i2c): only the holder of the bus handle can build a driver, so a
\* second driver is built from the handle that destroy() gave back.
new ==
    /\ ~live
    /\ live' = TRUE
    /\ settings' = Default
    /\ configured' = {}
    /\ Record("new", Default, 0, <<>>, "Ok", <<>>, <<>>)
    /\ UNCHANGED <<regs, reading, dec>>

with_settings(s) ==
    /\ live
    /\ IF in_measurement_mode(s)
       THEN /\ settings' = settings
            /\ Record("with_settings", s, 0, <<>>,
                      "MeasurementModeBeforeConfig", <<>>, <<>>)
       ELSE /\ settings' = s
            /\ Record("with_settings", s, 0, <<>>, "Ok", <<>>, <<>>)
    /\ UNCHANGED <<live, regs, configured, reading, dec>>

\* Variant: DATA_FORMAT is written before BW_RATE.
init_writes_swapped(s, ok1, ok2) ==
    LET w1 == BusWrite(DATA_FORMAT_ADDR, DATA_FORMAT_reg_value(s), ok1)
        w2 == BusWrite(BW_RATE_ADDR, BW_RATE_reg_value(s), ok2)
    IN  IF ok1 THEN <<w1, w2>> ELSE <<w1>>

\* Variant: the second write is attempted whatever the first returned.
init_writes_both(s, ok1, ok2) ==
    << BusWrite(BW_RATE_ADDR, BW_RATE_reg_value(s), ok1),
       BusWrite(DATA_FORMAT_ADDR, DATA_FORMAT_reg_value(s), ok2) >>

\* The transactions init() issues: the second write only if the first
\* succeeded.
init_writes(s, ok1, ok2) ==
    LET w1 == BusWrite(BW_RATE_ADDR, BW_RATE_reg_value(s), ok1)
        w2 == BusWrite(DATA_FORMAT_ADDR, DATA_FORMAT_reg_value(s), ok2)
    IN  IF ok1 THEN <<w1, w2>> ELSE <<w1>>

init(ok1, ok2) ==
    /\ live
    /\ LET tx == init_writes(settings, ok1, ok2)
           r1 == DeviceWrite(regs, tx[1].reg, tx[1].data[1], tx[1].ok)
           r2 == IF Len(tx) = 2
                 THEN DeviceWrite(r1, tx[2].reg, tx[2].data[1], tx[2].ok)
                 ELSE r1
       IN  /\ regs' = r2
           /\ configured' = configured \cup Wrote(tx)
           /\ Record("init", Default, 0, tx, From(tx[Len(tx)].ok), <<>>, <<>>)
    /\ UNCHANGED <<settings, live, reading, dec>>

\* Variant: the first arm matches every byte.
confirm_device_match_any(returned_value) == "Ok"

\* match returned_value { DEVID_REG_VALUE => Ok(()), _ => Err(DeviceIdMismatch) }
confirm_device_match(returned_value) ==
    IF returned_value = DEVID_REG_VALUE THEN "Ok" ELSE "DeviceIdMismatch"

confirm_device(id, ok) ==
    /\ live
    /\ LET tx == <<BusWriteRead(DEVID_ADDR, <<id>>, ok)>>
       IN  Record("confirm_device", Default, 0, tx,
                  IF ok THEN confirm_device_match(id) ELSE From(ok),
                  <<>>, <<>>)
    /\ UNCHANGED <<settings, live, regs, configured, reading, dec>>

\* Variant: the write goes to the address POWER_CTL::address() reports.
begin_measurements_call_bw(s, ok) ==
    IF ~in_measurement_mode(s)
    THEN [ settings |-> toggle_measurement_mode(s),
           tx |-> <<BusWrite(BW_RATE_ADDR, POWER_CTL(1), ok)>>,
           ret |-> From(ok) ]
    ELSE [ settings |-> s, tx |-> <<>>, ret |-> "Ok" ]

\* The effect of begin_measurements on the settings and the transactions
\* it issues: the flag is toggled before the write is attempted.
begin_measurements_call(s, ok) ==
    IF ~in_measurement_mode(s)
    THEN [ settings |-> toggle_measurement_mode(s),
           tx |-> <<BusWrite(POWER_CTL_ADDR, POWER_CTL(1), ok)>>,
           ret |-> From(ok) ]
    ELSE [ settings |-> s, tx |-> <<>>, ret |-> "Ok" ]

\* Variant: the flag is toggled only once the write has succeeded.
turn_off_measurements_call_late(s, ok) ==
    IF in_measurement_mode(s)
    THEN [ settings |-> IF ok THEN toggle_measurement_mode(s) ELSE s,
           tx |-> <<BusWrite(POWER_CTL_ADDR, POWER_CTL(0), ok)>>,
           ret |-> From(ok) ]
    ELSE [ settings |-> s, tx |-> <<>>, ret |-> "Ok" ]

turn_off_measurements_call(s, ok) ==
    IF in_measurement_mode(s)
    THEN [ settings |-> toggle_measurement_mode(s),
           tx |-> <<BusWrite(POWER_CTL_ADDR, POWER_CTL(0), ok)>>,
           ret |-> From(ok) ]
    ELSE [ settings |-> s, tx |-> <<>>, ret |-> "Ok" ]

\* Apply the writes of a call to the device.
ApplyWrites(r, tx) ==
    IF tx = <<>> THEN r
    ELSE DeviceWrite(r, tx[1].reg, tx[1].data[1], tx[1].ok)

begin_measurements(ok) ==
    /\ live
    /\ LET c == begin_measurements_call(settings, ok)
       IN  /\ settings' = c.settings
           /\ regs' = ApplyWrites(regs, c.tx)
           /\ Record("begin_measurements", Default, 0, c.tx, c.ret, <<>>, <<>>)
    /\ UNCHANGED <<live, configured, reading, dec>>

turn_off_measurements(ok) ==
    /\ live
    /\ LET c == turn_off_measurements_call(settings, ok)
       IN  /\ settings' = c.settings
           /\ regs' = ApplyWrites(regs, c.tx)
           /\ Record("turn_off_measurements", Default, 0, c.tx, c.ret, <<>>, <<>>)
    /\ UNCHANGED <<live, configured, reading, dec>>

read_full_sample(sample, ok) ==
    /\ live
    /\ LET tx == <<BusWriteRead(DATAX0_ADDR, sample, ok)>>
       IN  Record("read_full_sample", Default, 0, tx, From(ok),
                  IF ok THEN sample ELSE <<>>, <<>>)
    /\ UNCHANGED <<settings, live, regs, configured, reading, dec>>

\* Variant: each pair is taken high byte first.
as_chunks_swapped(sample) ==
    [ i \in 1..3 |-> <<sample[2 * i], sample[2 * i - 1]>> ]

\* binding.as_chunks::<2>(): the pairs (1,2), (3,4), (5,6) of the sample
as_chunks(sample) ==
    [ i \in 1..3 |-> <<sample[2 * i - 1], sample[2 * i]>> ]

read_accel(sample, ok) ==
    /\ live
    /\ LET tx == <<BusWriteRead(DATAX0_ADDR, sample, ok)>>
           axis_samples == as_chunks(sample)
           x_raw == axis_value_raw(settings, axis_samples[1])
           y_raw == axis_value_raw(settings, axis_samples[2])
           z_raw == axis_value_raw(settings, axis_samples[3])
       IN  Record("read_accel", Default, 0, tx, From(ok), <<>>,
                  IF ok
                  THEN << axis_value(settings, x_raw),
                          axis_value(settings, y_raw),
                          axis_value(settings, z_raw) >>
                  ELSE <<>>)
    /\ UNCHANGED <<settings, live, regs, configured, reading, dec>>

\* What the device answers for a register: its content, or for the
\* identity register whatever the chip at that address reports.
DeviceAnswers(r, reg_address) ==
    IF reg_address \in DOMAIN r THEN { r[reg_address] } ELSE DevIdInputs

read_register(reg_address, b, ok) ==
    /\ live
    /\ LET tx == <<BusWriteRead(reg_address, <<b>>, ok)>>
       IN  Record("read_register", Default, reg_address, tx, From(ok),
                  IF ok THEN <<b>> ELSE <<>>, <<>>)
    /\ UNCHANGED <<settings, live, regs, configured, reading, dec>>

\* destroy(self): the result of turn_off_measurements is dropped; the bus
\* handle and the settings go back to the caller.
destroy(ok) ==
    /\ live
    /\ LET c == turn_off_measurements_call(settings, ok)
       IN  /\ settings' = c.settings
           /\ regs' = ApplyWrites(regs, c.tx)
           /\ Record("destroy", Default, 0, c.tx, "Ok", <<>>, <<>>)
    /\ live' = FALSE
    /\ UNCHANGED <<configured, reading, dec>>

Next ==
    \/ new
    \/ \E s \in SettingsInputs : with_settings(s)
    \/ \E ok1, ok2 \in BOOLEAN : init(ok1, ok2)
    \/ \E id \in DevIdInputs, ok \in BOOLEAN : confirm_device(id, ok)
    \/ \E ok \in BOOLEAN : begin_measurements(ok)
    \/ \E ok \in BOOLEAN : turn_off_measurements(ok)
    \/ \E sample \in SampleInputs, ok \in BOOLEAN : read_full_sample(sample, ok)
    \/ \E sample \in SampleInputs, ok \in BOOLEAN : read_accel(sample, ok)
    \/ \E a \in RegAddrInputs, ok \in BOOLEAN :
            \E b \in DeviceAnswers(regs, a) : read_register(a, b, ok)
    \/ \E ok \in BOOLEAN : destroy(ok)

Spec == Init /\ [][Next]_vars

\* The identity check alone, against every byte, in every measurement state.
NextId ==
    \/ \E id \in Byte, ok \in BOOLEAN : confirm_device(id, ok)
    \/ \E s \in SettingsInputs : with_settings(s)
    \/ \E ok \in BOOLEAN : begin_measurements(ok)
    \/ \E ok \in BOOLEAN : turn_off_measurements(ok)

SpecId == Init /\ [][NextId]_vars

---------------------------------------------------------------------------
(* The Settings model's derived values, for every Settings value           *)

InitSet ==
    /\ settings \in ADXL343Settings
    /\ live = TRUE
    /\ regs = DeviceReset
    /\ configured = {}
    /\ everFailed = FALSE
    /\ last = [ op |-> "new", pre |-> Default, sarg |-> Default, addr |-> 0,
                tx |-> <<>>, ret |-> "Ok", val |-> <<>>, fval |-> <<>> ]
    /\ prev = [ op |-> "other", nw |-> 0, meas |-> FALSE ]
    /\ reading = 0
    /\ dec = NoDec

\* Each getter is called on the settings and its result kept in `last`.
call_resolution_to_bits ==
    /\ Record("resolution_to_bits", Default, 0, <<>>, "Ok",
              <<resolution_to_bits(settings)>>, <<>>)
    /\ UNCHANGED <<settings, live, regs, configured, reading, dec>>

call_g_per_lsb ==
    /\ Record("g_per_lsb", Default, 0, <<>>, "Ok",
              <<lsb_per_g(settings)>>, <<g_per_lsb(settings)>>)
    /\ UNCHANGED <<settings, live, regs, configured, reading, dec>>

call_DATA_FORMAT_reg_value ==
    /\ Record("DATA_FORMAT_reg_value", Default, 0, <<>>, "Ok",
              <<DATA_FORMAT_reg_value(settings)>>, <<>>)
    /\ UNCHANGED <<settings, live, regs, configured, reading, dec>>

call_BW_RATE_reg_value ==
    /\ Record("BW_RATE_reg_value", Default, 0, <<>>, "Ok",
              <<BW_RATE_reg_value(settings)>>, <<>>)
    /\ UNCHANGED <<settings, live, regs, configured, reading, dec>>

\* A register layout's address() is called and its result kept in `last`.
call_address(layout) ==
    /\ Record(layout, Default, 0, <<>>, "Ok", <<address(layout)>>, <<>>)
    /\ UNCHANGED <<settings, live, regs, configured, reading, dec>>

NextSet ==
    \/ call_resolution_to_bits
    \/ call_g_per_lsb
    \/ call_DATA_FORMAT_reg_value
    \/ call_BW_RATE_reg_value
    \/ \E layout \in RegisterLayouts : call_address(layout)

SpecSet == InitSet /\ [][NextSet]_vars

---------------------------------------------------------------------------
(* The conversion pipeline on the readings a device can hold               *)

\* The signed readings an n-bit resolution can represent.
Readings(bits) == (-Pow2(bits - 1))..(Pow2(bits - 1) - 1)

\* u16::to_le_bytes as <<low byte, high byte>>
to_le_bytes(w) == <<w % 256, w \div 256>>

\* The byte pair the device puts in an axis's two data registers for the
\* reading v at a resolution of `bits` bits: right-justified it is v
\* sign-extended to 16 bits, left-justified it is v's `bits` bits moved up
\* to end at bit 15.
DeviceEncode(v, bits, justification) ==
    IF justification = "left"
    THEN to_le_bytes(Shl16(v % Pow2(bits), 16 - bits))
    ELSE to_le_bytes(v % 65536)

\* Every range, alignment and resolution; the other fields do not enter
\* the conversion.
ConvSettings ==
    { [Default EXCEPT !.range = r, !.justification = j, !.resolution = f] :
        r \in AccelRange, j \in Alignment, f \in FullRes }

InitConv ==
    /\ settings \in ConvSettings
    /\ reading \in Readings(resolution_to_bits(settings))
    /\ dec = NoDec
    /\ live = TRUE
    /\ regs = DeviceReset
    /\ configured = {}
    /\ everFailed = FALSE
    /\ last = [ op |-> "new", pre |-> Default, sarg |-> Default, addr |-> 0,
                tx |-> <<>>, ret |-> "Ok", val |-> <<>>, fval |-> <<>> ]
    /\ prev = [ op |-> "other", nw |-> 0, meas |-> FALSE ]

\* The sensor is set up with the other alignment, as the integration test
\* does between its two readings.
rejustify(justification) ==
    /\ justification /= get_justification(settings)
    /\ settings' = set_justification(settings, justification)
    /\ UNCHANGED <<live, regs, configured, everFailed, last, prev, reading, dec>>

\* One axis of a sample is taken from the device and run through
\* axis_value_raw and axis_value under the current settings.
decode ==
    /\ dec[get_justification(settings)] = <<>>
    /\ LET pair == DeviceEncode(reading, resolution_to_bits(settings),
                                get_justification(settings))
           raw  == axis_value_raw(settings, pair)
       IN  dec' = [dec EXCEPT ![get_justification(settings)] =
                      << [ pair |-> pair, raw |-> raw,
                           g |-> axis_value(settings, raw) ] >>]
    /\ UNCHANGED <<settings, live, regs, configured, everFailed, last, prev,
                   reading>>

NextConv ==
    \/ \E j \in Alignment : rejustify(j)
    \/ decode

SpecConv == InitConv /\ [][NextConv]_vars

---------------------------------------------------------------------------
(* Properties                                                              *)

MeasureBit(byte) == (byte \div 8) % 2

\* C1: with_settings(s) with s.measurement_mode = true returns
\* MeasurementModeBeforeConfig and leaves the driver's Settings as they
\* were; with s.measurement_mode = false it succeeds and the snapshot
\* becomes s; in both cases it issues no bus transaction.
C1_with_settings ==
    last.op = "with_settings" =>
        /\ last.tx = <<>>
        /\ IF last.sarg.measurement_mode
           THEN last.ret = "MeasurementModeBeforeConfig" /\ settings = last.pre
           ELSE last.ret = "Ok" /\ settings = last.sarg

\* A measuring driver with non-default settings has rejected a measuring
\* Settings value that differs from its own.
C1_witness ==
    /\ last.op = "with_settings"
    /\ last.sarg.measurement_mode
    /\ last.pre.measurement_mode
    /\ last.pre.range = "_16g"
    /\ last.sarg.range = "_8g"
    /\ last.ret = "MeasurementModeBeforeConfig"

\* C2: justification invariance: a reading decoded from the device's
\* right-justified bytes and from its left-justified bytes gives the same
\* signed integer, at every resolution.
C2_justification_invariance ==
    (dec["right"] /= <<>> /\ dec["left"] /= <<>>) =>
        dec["right"][1].raw = dec["left"][1].raw

\* C3: from a driver that is not measuring, two begin_measurements calls in
\* a row issue exactly one bus write, none of it in the second call; and
\* the same for two turn_off_measurements calls from a measuring driver.
C3_toggle_twice ==
    /\ (last.op = "begin_measurements" /\ prev.op = "begin_measurements"
            /\ ~prev.meas) =>
          (prev.nw + NumWrites(last.tx) = 1 /\ last.tx = <<>>)
    /\ (last.op = "turn_off_measurements" /\ prev.op = "turn_off_measurements"
            /\ prev.meas) =>
          (prev.nw + NumWrites(last.tx) = 1 /\ last.tx = <<>>)

\* Two begin_measurements calls in a row were made on a driver that was
\* not measuring.
C3_witness ==
    /\ last.op = "begin_measurements"
    /\ prev.op = "begin_measurements"
    /\ ~prev.meas
    /\ prev.nw = 1
    /\ last.ret = "Ok"

\* C4: on a bus that never fails, once destroy() has returned the device's
\* POWER_CTL register holds measurement bit 0.
C4_destroy_stops_measurement ==
    (~live /\ ~everFailed) => MeasureBit(regs[POWER_CTL_ADDR]) = 0

\* C5: the driver writes measurement bit 1 to POWER_CTL only after init()
\* has written BW_RATE and DATA_FORMAT on that driver.
C5_configure_before_measure ==
    \A i \in DOMAIN last.tx :
        (last.tx[i].kind = "write" /\ last.tx[i].reg = 45
            /\ MeasureBit(last.tx[i].data[1]) = 1) =>
          {44, 49} \subseteq configured

C7_init_writes ==
    (last.op = "init" /\ ~AnyFailed(last.tx)) =>
        /\ Len(last.tx) = 2
        /\ last.tx[1].kind = "write" /\ last.tx[2].kind = "write"
        /\ last.tx[1].reg = 44 /\ last.tx[2].reg = 49
        /\ last.tx[1].data = <<BW_RATE_reg_value(last.pre)>>
        /\ last.tx[2].data = <<DATA_FORMAT_reg_value(last.pre)>>
        /\ regs[44] = BW_RATE_reg_value(last.pre)
        /\ regs[49] = DATA_FORMAT_reg_value(last.pre)

\* init() ran after with_settings had installed the low-power 12.5 Hz,
\* 8g full-resolution settings, and wrote 0b10111 and 0b1010.
C7_witness ==
    /\ last.op = "init"
    /\ ~AnyFailed(last.tx)
    /\ last.pre = LowPowerSettings
    /\ last.tx[1].data = <<23>>
    /\ last.tx[2].data = <<10>>

\* C8: under left justification, at every resolution b and for every
\* signed b-bit v, the little-endian bytes of (v mod 2^b) << (16 - b)
\* decode to v, and axis_value of that is v * g_per_lsb; with full
\* resolution and 16g the pairs of (9*256) << 3 and 0b1011100000000 << 3
\* convert to 9.0 and -9.0.
C8_left_justified_decoding ==
    dec["left"] /= <<>> =>
        LET d == dec["left"][1]
            b == resolution_to_bits(settings)
            w == ((reading % Pow2(b)) * Pow2(16 - b))
            k == g_per_lsb(settings)
        IN  /\ d.pair = <<w % 256, w \div 256>>
            /\ d.raw = reading
            /\ d.g.num * k.den = reading * k.num * d.g.den
            /\ (settings.resolution = "full_res" /\ settings.range = "_16g") =>
                  /\ d.pair = <<0, 72>> => d.g.num = 9 * d.g.den
                  /\ d.pair = <<0, 184>> => d.g.num = (-9) * d.g.den

\* The pair of 0b1011100000000 << 3 was decoded at full resolution, 16g.
C8_witness ==
    /\ dec["left"] /= <<>>
    /\ settings.resolution = "full_res"
    /\ settings.range = "_16g"
    /\ dec["left"][1].pair = <<0, 184>>
    /\ dec["left"][1].raw = -2304
    /\ dec["left"][1].g = [num |-> -2304, den |-> 256]

\* C9, as stated: with full resolution, 16g and left justification the
\* pair of (9*256) << 3 decodes to 1152 and that of 0b1011100000000 << 3
\* to -1152.
C9_as_stated ==
    (dec["left"] /= <<>> /\ settings.resolution = "full_res"
        /\ settings.range = "_16g") =>
          /\ dec["left"][1].pair = <<0, 72>> => dec["left"][1].raw = 1152
          /\ dec["left"][1].pair = <<0, 184>> => dec["left"][1].raw = -1152

\* C9, amended: with full resolution, 16g and left justification the pair
\* of (9*256) << 3 decodes to 2304 and that of 0b1011100000000 << 3 to
\* -2304.
C9_nine_g_raw ==
    (dec["left"] /= <<>> /\ settings.resolution = "full_res"
        /\ settings.range = "_16g") =>
          /\ dec["left"][1].pair = <<0, 72>> => dec["left"][1].raw = 2304
          /\ dec["left"][1].pair = <<0, 184>> => dec["left"][1].raw = -2304

\* The pair of (9*256) << 3 was decoded at full resolution, 16g.
C9_witness ==
    /\ dec["left"] /= <<>>
    /\ settings.resolution = "full_res"
    /\ settings.range = "_16g"
    /\ dec["left"][1].pair = <<0, 72>>
    /\ reading = 2304

FallibleBusOps ==
    { "init", "confirm_device", "begin_measurements", "turn_off_measurements",
      "read_full_sample", "read_accel", "read_register" }

\* C10: a bus failure inside init, confirm_device, begin_measurements,
\* turn_off_measurements, read_full_sample, read_accel or read_register is
\* returned to the caller; only destroy() discards one, and it always
\* succeeds, giving up the bus handle and the Settings the driver then
\* holds (its Settings with the measurement flag cleared).
C10_error_propagation ==
    /\ (last.op \in FallibleBusOps /\ AnyFailed(last.tx)) =>
          last.ret = "Interface"
    /\ (AnyFailed(last.tx) /\ last.ret /= "Interface") => last.op = "destroy"
    /\ last.op = "destroy" =>
          /\ ~live
          /\ last.ret = "Ok"
          /\ settings = [last.pre EXCEPT !.measurement_mode = FALSE]

\* destroy() was called on a measuring driver and its POWER_CTL write
\* failed.
C10_witness ==
    /\ last.op = "destroy"
    /\ AnyFailed(last.tx)
    /\ last.pre.measurement_mode
    /\ ~live

C12_resolution_to_bits ==
    last.op = "resolution_to_bits" =>
        LET bits == last.val[1]
        IN  /\ settings.resolution = "_10bit_res" => bits = 10
            /\ (settings.resolution = "full_res" /\ settings.range = "_2g")
                  => bits = 10
            /\ (settings.resolution = "full_res" /\ settings.range = "_4g")
                  => bits = 11
            /\ (settings.resolution = "full_res" /\ settings.range = "_8g")
                  => bits = 12
            /\ (settings.resolution = "full_res" /\ settings.range = "_16g")
                  => bits = 13
            /\ bits \in {10, 11, 12, 13}
            /\ (16 - bits) \in 3..6

\* The getter returned 12 for full resolution at 8g.
C12_witness ==
    /\ last.op = "resolution_to_bits"
    /\ settings.resolution = "full_res"
    /\ settings.range = "_8g"
    /\ last.val = <<12>>

\* C13: g_per_lsb is exactly 1/256 in full resolution at every range, and
\* 1/256, 1/128, 1/64, 1/32 for 2g, 4g, 8g, 16g in fixed 10-bit mode;
\* lsb_per_g is its exact reciprocal.
C13_g_per_lsb ==
    last.op = "g_per_lsb" =>
        LET g == last.fval[1]
            n == last.val[1]
        IN  /\ g.num = 1
            /\ settings.resolution = "full_res" => g.den = 256
            /\ (settings.resolution = "_10bit_res" /\ settings.range = "_2g")
                  => g.den = 256
            /\ (settings.resolution = "_10bit_res" /\ settings.range = "_4g")
                  => g.den = 128
            /\ (settings.resolution = "_10bit_res" /\ settings.range = "_8g")
                  => g.den = 64
            /\ (settings.resolution = "_10bit_res" /\ settings.range = "_16g")
                  => g.den = 32
            /\ n * g.num = g.den

\* The getters returned 1/256 and 256 for full resolution at 16g.
C13_witness ==
    /\ last.op = "g_per_lsb"
    /\ settings.resolution = "full_res"
    /\ settings.range = "_16g"
    /\ last.fval = <<[num |-> 1, den |-> 256]>>
    /\ last.val = <<256>>

C15_bw_rate_byte ==
    last.op = "BW_RATE_reg_value" =>
        LET byte == last.val[1]
        IN  /\ byte % 16 = OutputDataRateBits(settings.odr)
            /\ settings.odr = "Hz100" => byte % 16 = 10
            /\ settings.odr = "Hz12_5" => byte % 16 = 7
            /\ settings.odr = "Hz3200" => byte % 16 = 15
            /\ (byte \div 16) % 2 = (IF settings.low_power_mode THEN 1 ELSE 0)
            /\ byte \div 32 = 0
            /\ \A s \in ADXL343Settings :
                  (BW_RATE_reg_value(s) = byte) <=>
                      /\ s.odr = settings.odr
                      /\ s.low_power_mode = settings.low_power_mode

\* The byte of 12.5 Hz in low power was computed: 0b10111.
C15_witness ==
    /\ last.op = "BW_RATE_reg_value"
    /\ settings.odr = "Hz12_5"
    /\ settings.low_power_mode
    /\ last.val = <<23>>

\* C16: on a bus that never fails, the driver's measurement_mode flag
\* equals the measurement bit the device's POWER_CTL register last
\* received (0 if none).
C16_flag_matches_device ==
    (live /\ ~everFailed) =>
        BoolBits(settings.measurement_mode) = MeasureBit(regs[45])

\* C17: a begin_measurements or turn_off_measurements call whose POWER_CTL
\* write fails returns the bus error and leaves the measurement_mode flag
\* as it was.
C17_flag_unchanged_on_error ==
    (last.op \in ToggleOps /\ AnyFailed(last.tx)) =>
        /\ last.ret = "Interface"
        /\ settings.measurement_mode = last.pre.measurement_mode

\* C18: whether or not the bus fails, the Settings destroy() returns have
\* measurement_mode = false and otherwise equal the driver's Settings
\* before the call, so with_settings accepts them.
C18_release_round_trip ==
    ~live =>
        /\ last.op = "destroy"
        /\ settings.measurement_mode = FALSE
        /\ \A f \in { "odr", "range", "justification", "resolution",
                       "low_power_mode" } : settings[f] = last.pre[f]
        /\ ~in_measurement_mode(settings)

\* A measuring driver with the 16g settings was released on a failing bus.
C18_witness ==
    /\ ~live
    /\ last.pre.measurement_mode
    /\ last.pre.range = "_16g"
    /\ last.tx /= <<>>
    /\ ~last.tx[1].ok
    /\ settings = UnitTestSettings

\* C19: init() never writes to POWER_CTL and never changes the
\* measurement_mode flag; begin_measurements and turn_off_measurements
\* never write to BW_RATE or DATA_FORMAT and change no Settings field but
\* measurement_mode.
C19_frame_conditions ==
    /\ last.op = "init" =>
          /\ \A i \in DOMAIN last.tx : last.tx[i].reg /= 45
          /\ settings.measurement_mode = last.pre.measurement_mode
    /\ last.op \in ToggleOps =>
          /\ \A i \in DOMAIN last.tx : last.tx[i].reg \notin {44, 49}
          /\ \A f \in { "odr", "range", "justification", "resolution",
                         "low_power_mode" } : settings[f] = last.pre[f]

\* Measurement was started on a configured driver with the low-power
\* settings.
C19_witness ==
    /\ last.op = "begin_measurements"
    /\ last.tx /= <<>>
    /\ last.pre = LowPowerSettings
    /\ configured = {44, 49}
    /\ regs[44] = 23

\* C20: in an init() call, a failed first write ends the call with the bus
\* error and nothing else attempted; a failed second write ends it with
\* the bus error, BW_RATE holding the new byte and DATA_FORMAT unchanged;
\* with no failure both registers hold the bytes of the Settings, and a
\* further such call changes neither.
C20_init_partial_failure ==
    [][ last'.op = "init" =>
          LET tx == last'.tx
          IN  /\ ~tx[1].ok =>
                    /\ Len(tx) = 1
                    /\ last'.ret = "Interface"
                    /\ regs' = regs
              /\ (tx[1].ok /\ Len(tx) = 2 /\ ~tx[2].ok) =>
                    /\ last'.ret = "Interface"
                    /\ regs'[44] = BW_RATE_reg_value(settings)
                    /\ regs'[49] = regs[49]
              /\ tx[1].ok => Len(tx) = 2
              /\ ~AnyFailed(tx) =>
                    /\ last'.ret = "Ok"
                    /\ regs'[44] = BW_RATE_reg_value(settings)
                    /\ regs'[49] = DATA_FORMAT_reg_value(settings)
                    /\ regs'[45] = regs[45]
                    /\ (last.op = "init" /\ ~AnyFailed(last.tx)) => regs' = regs
    ]_vars

\* init() with the low-power settings failed at its second write: BW_RATE
\* holds 0b10111 and DATA_FORMAT still its reset value.
C20_witness ==
    /\ last.op = "init"
    /\ Len(last.tx) = 2
    /\ ~last.tx[2].ok
    /\ last.pre.odr = "Hz12_5"
    /\ regs[44] = 23
    /\ regs[49] = 0

\* C21: every write begin_measurements issues goes to POWER_CTL (0x2D)
\* with byte 0b00001000, every write turn_off_measurements issues goes
\* there with byte 0; neither writes when the flag already has the value
\* asked for.
C21_power_ctl_writes ==
    /\ last.op = "begin_measurements" =>
          /\ \A i \in DOMAIN last.tx :
                /\ last.tx[i].kind = "write"
                /\ last.tx[i].reg = 45
                /\ last.tx[i].data = <<8>>
          /\ last.pre.measurement_mode => last.tx = <<>>
          /\ ~last.pre.measurement_mode => Len(last.tx) = 1
    /\ last.op = "turn_off_measurements" =>
          /\ \A i \in DOMAIN last.tx :
                /\ last.tx[i].kind = "write"
                /\ last.tx[i].reg = 45
                /\ last.tx[i].data = <<0>>
          /\ ~last.pre.measurement_mode => last.tx = <<>>
          /\ last.pre.measurement_mode => Len(last.tx) = 1

\* Measurement was started and the device took the byte 0b00001000.
C21_witness ==
    /\ last.op = "begin_measurements"
    /\ Len(last.tx) = 1
    /\ last.tx[1].ok
    /\ last.tx[1].data = <<8>>
    /\ regs[45] = 8

\* C22: read_full_sample and read_accel each issue exactly one write-read
\* of 6 bytes at register 0x32 and change nothing in the driver or the
\* device; read_full_sample returns the bytes as read, read_accel the
\* conversions of the pairs (0,1), (2,3), (4,5) as X, Y, Z under the
\* current Settings.
C22_sample_reads ==
    [][ last'.op \in { "read_full_sample", "read_accel" } =>
          LET tx == last'.tx
          IN  /\ Len(tx) = 1
              /\ tx[1].kind = "write_read"
              /\ tx[1].reg = 50
              /\ settings' = settings
              /\ live' = live
              /\ regs' = regs
              /\ configured' = configured
              /\ ~tx[1].ok =>
                    last'.ret = "Interface" /\ last'.val = <<>>
                        /\ last'.fval = <<>>
              /\ tx[1].ok =>
                    /\ Len(tx[1].data) = 6
                    /\ last'.ret = "Ok"
                    /\ last'.op = "read_full_sample" => last'.val = tx[1].data
                    /\ last'.op = "read_accel" =>
                          /\ Len(last'.fval) = 3
                          /\ \A i \in 1..3 :
                                last'.fval[i] =
                                  axis_value(settings,
                                    axis_value_raw(settings,
                                      << tx[1].data[2 * i - 1],
                                         tx[1].data[2 * i] >>))
    ]_vars

\* read_accel under the full-resolution, 16g, left-justified settings read
\* the pairs of +9g, -9g and -1 LSB, and returned 9.0, -9.0 and -1/256.
C22_witness ==
    /\ last.op = "read_accel"
    /\ last.tx[1].ok
    /\ last.tx[1].data = <<0, 72, 0, 184, 255, 255>>
    /\ settings = UnitTestSettings
    /\ last.fval = << [num |-> 2304, den |-> 256],
                      [num |-> -2304, den |-> 256],
                      [num |-> -1, den |-> 256] >>

\* C23: each register layout's address() returns the address of its own
\* register (BW_RATE 0x2C, POWER_CTL 0x2D, DATA_FORMAT 0x31, FIFO_CTL 0x38,
\* DEVID 0x00), and no two layouts report the same address.
C23_layout_addresses ==
    last.op \in RegisterLayouts =>
        /\ last.val[1] =
              (CASE last.op = "BW_RATE::address"     -> 44
                 [] last.op = "POWER_CTL::address"   -> 45
                 [] last.op = "DATA_FORMAT::address" -> 49
                 [] last.op = "FIFO_CTL::address"    -> 56
                 [] last.op = "DEVID::address"       -> 0)
        /\ \A l \in RegisterLayouts \ {last.op} : address(l) /= last.val[1]

====
